---- MODULE Spec2Model ----
(***************************************************************************)
(* SpecWise MVP (src/app.py): capability probes, the PDF/DOCX text         *)
(* extraction chain, the extraction gate of the main flow, the four views, *)
(* the completion client `ask` and the word-window chunker `chunk_text`.   *)
(*                                                                         *)
(* Strings are sequences of one-character strings.  The two fixed          *)
(* diagnostic prefixes "[No API key]" and "[OpenAI error]" are kept as one *)
(* element each, so "begins with" is a test on the first element.          *)
(***************************************************************************)
EXTENDS Integers, Sequences, FiniteSets, TLC

\* ---------------------------------------------------------------- bounds
MaxPages == 2        \* pages / images / paragraphs of an uploaded document
MaxTextLen == 5      \* characters of a text handed to chunk_text
MaxSize == 3         \* largest size / overlap argument of chunk_text

\* ------------------------------------------------------ program constants
DefaultSize == 2500
DefaultOverlap == 200
SummaryChunks == 5

\* ------------------------------------------------------- Python strings
Min(a, b) == IF a < b THEN a ELSE b
Max(a, b) == IF a > b THEN a ELSE b

\* str.isspace for the characters of the model
IsSpace(c) == c \in {" ", "\n"}

RECURSIVE LStrip(_)
LStrip(s) == IF s # <<>> /\ IsSpace(Head(s)) THEN LStrip(Tail(s)) ELSE s

RECURSIVE RStrip(_)
RStrip(s) ==
  IF s # <<>> /\ IsSpace(s[Len(s)]) THEN RStrip(SubSeq(s, 1, Len(s) - 1)) ELSE s

\* str.strip()
Strip(s) == RStrip(LStrip(s))

\* sep.join(list)
RECURSIVE Join(_, _)
Join(sep, list) ==
  IF list = <<>> THEN <<>>
  ELSE IF Len(list) = 1 THEN list[1]
  ELSE list[1] \o sep \o Join(sep, Tail(list))

\* str.split(): maximal runs of non-whitespace characters, in order
RECURSIVE SplitAcc(_, _, _)
SplitAcc(s, cur, acc) ==
  IF s = <<>> THEN (IF cur = <<>> THEN acc ELSE Append(acc, cur))
  ELSE IF IsSpace(Head(s))
       THEN SplitAcc(Tail(s), <<>>, IF cur = <<>> THEN acc ELSE Append(acc, cur))
       ELSE SplitAcc(Tail(s), Append(cur, Head(s)), acc)

Split(s) == SplitAcc(s, <<>>, <<>>)

\* Python slice index normalisation and list[lo:hi]
SliceIdx(j, n) == IF j < 0 THEN Max(n + j, 0) ELSE Min(j, n)

PySlice(list, lo, hi) ==
  LET n == Len(list)
      a == SliceIdx(lo, n)
      b == SliceIdx(hi, n)
  IN IF a < b THEN SubSeq(list, a + 1, b) ELSE <<>>

\* str.lower() on the characters of the model
Lower(s) == [j \in 1..Len(s) |-> IF s[j] = "A" THEN "a" ELSE s[j]]

\* str.find(sub, start): 0-based index of the first occurrence, or -1
RECURSIVE Find(_, _, _)
Find(s, sub, start) ==
  IF start + Len(sub) > Len(s) THEN -1
  ELSE IF SubSeq(s, start + 1, start + Len(sub)) = sub THEN start
  ELSE Find(s, sub, start + 1)

\* Python None where a string is expected
None == <<"<None>">>

\* `x or ""`
OrEmpty(x) == IF x = None \/ x = <<>> THEN <<>> ELSE x

\* sequences over S of length at most n
SeqsUpTo(S, n) == UNION {[1..m -> S] : m \in 0..n}

\* ------------------------------------------------------ input domains
\* what extract_text() of one page can return
PageTexts == {None, <<" ">>, <<"a">>}

\* one PDF backend run on a document: it raises, or yields per-page values
PdfOutcomes ==
  {[exc |-> TRUE, items |-> <<>>]} \cup
  {[exc |-> FALSE, items |-> p] : p \in SeqsUpTo(PageTexts, MaxPages)}

\* image_to_string on one image: it raises, or returns a string
ImageOutcomes ==
  {[exc |-> TRUE, s |-> <<>>], [exc |-> FALSE, s |-> <<" ">>], [exc |-> FALSE, s |-> <<"a">>]}

\* convert_from_bytes raises, or yields images each with its OCR outcome
OcrOutcomes ==
  {[exc |-> TRUE, images |-> <<>>]} \cup
  {[exc |-> FALSE, images |-> im] : im \in SeqsUpTo(ImageOutcomes, MaxPages)}

ParTexts == {<<>>, <<" ">>, <<"a">>}

\* docx.Document raises, or yields paragraphs
DocxOutcomes ==
  {[exc |-> TRUE, items |-> <<>>]} \cup
  {[exc |-> FALSE, items |-> p] : p \in SeqsUpTo(ParTexts, MaxPages)}

\* an exhausted stream / no bytes read yet
NoData == [exc |-> FALSE, items |-> <<>>]

NoOcr == [exc |-> FALSE, images |-> <<>>]

NoFile == [name |-> "", content |-> NoData]

\* an uploaded file: its name and what the matching reader makes of its bytes
Files ==
  {[name |-> "spec.pdf", content |-> c] : c \in PdfOutcomes} \cup
  {[name |-> "spec.docx", content |-> c] : c \in DocxOutcomes}

\* outcome of the module-level `from openai import OpenAI ... OpenAI()`
Setups == {"import_failed", "no_key", "ctor_failed", "constructed"}

\* outcome of client.chat.completions.create and of reading its response
RemoteOutcomes ==
  { [kind |-> "exc", content |-> <<"e">>],
    [kind |-> "no_choices", content |-> <<>>],
    [kind |-> "ok", content |-> None],
    [kind |-> "ok", content |-> <<" ", "a", "\n">>],
    [kind |-> "ok", content |-> <<"[", "]">>] }

\* no remote call made (yet, or by the last ask)
NoRemote == [kind |-> "none", content |-> <<>>]

Terms == {<<"a">>, <<"A">>}

VARIABLES
  HAS_PYPDF, HAS_DOXC, HAS_PLUMBER, HAS_PDF2IMG, HAS_TESS,
  setup, OPENAI_OK, client,
  pc, f, data, stage1, stage2, ocr, ret, text,
  stages, calls, notes, raised,
  chunks, k, outs, lastAsk, remote, askCalls, remoteCalls, chunkCalls, hits, df,
  cpc, ctext, size, overlap, toks, out, i

flagVars == <<HAS_PYPDF, HAS_DOXC, HAS_PLUMBER, HAS_PDF2IMG, HAS_TESS, setup, OPENAI_OK, client>>
pdfVars == <<data, stage1, stage2, ocr, ret, stages, calls>>
viewVars == <<chunks, k, outs, lastAsk, remote, askCalls, remoteCalls, chunkCalls, hits, df>>
chunkVars == <<cpc, ctext, size, overlap, toks, out, i>>
vars == <<flagVars, pc, f, pdfVars, text, notes, raised, viewVars, chunkVars>>

\* ------------------------------------------------ module load, lines 4-48
\* lines 42-48: OPENAI_OK and the binding of `client` after the try block
LoadClient(s) ==
  CASE s = "import_failed" -> [ok |-> FALSE, client |-> "None"]
    [] s = "no_key" -> [ok |-> FALSE, client |-> "unbound"]
    [] s = "ctor_failed" -> [ok |-> FALSE, client |-> "None"]
    [] s = "constructed" -> [ok |-> TRUE, client |-> "obj"]

MainIdle ==
  /\ pc = "off" /\ f = NoFile /\ data = NoData
  /\ stage1 = "pending" /\ stage2 = "pending" /\ ocr = NoOcr
  /\ ret = <<>> /\ text = <<>> /\ stages = <<>> /\ calls = <<>>
  /\ notes = <<>> /\ raised = FALSE
  /\ chunks = <<>> /\ k = 0 /\ outs = <<>> /\ lastAsk = <<>> /\ remote = NoRemote
  /\ askCalls = 0 /\ remoteCalls = 0 /\ chunkCalls = 0
  /\ hits = <<>> /\ df = [parsed |-> FALSE, rows |-> 0]

ChunkIdle ==
  /\ cpc = "off" /\ ctext = <<>> /\ size = DefaultSize /\ overlap = DefaultOverlap
  /\ toks = <<>> /\ out = <<>> /\ i = 0

Init ==
  /\ HAS_PYPDF \in BOOLEAN /\ HAS_DOXC \in BOOLEAN /\ HAS_PLUMBER \in BOOLEAN
  /\ HAS_PDF2IMG \in BOOLEAN /\ HAS_TESS \in BOOLEAN
  /\ setup \in Setups
  /\ OPENAI_OK = LoadClient(setup).ok
  /\ client = LoadClient(setup).client
  /\ pc = "upload" /\ f = NoFile /\ data = NoData
  /\ stage1 = "pending" /\ stage2 = "pending" /\ ocr = NoOcr
  /\ ret = <<>> /\ text = <<>> /\ stages = <<>> /\ calls = <<>>
  /\ notes = <<>> /\ raised = FALSE
  /\ chunks = <<>> /\ k = 0 /\ outs = <<>> /\ lastAsk = <<>> /\ remote = NoRemote
  /\ askCalls = 0 /\ remoteCalls = 0 /\ chunkCalls = 0
  /\ hits = <<>> /\ df = [parsed |-> FALSE, rows |-> 0]
  /\ ChunkIdle

\* ------------------------------------------------------------ read_pdf
\* lines 81-82 and 95-96: "\n".join(p.extract_text() or "" ...).strip()
PdfText(items) ==
  Strip(Join(<<"\n">>, [j \in 1..Len(items) |-> OrEmpty(items[j])]))

LayerAcceptedNever(t) == FALSE

\* line 83: `if text:` after the layer-text reader
LayerAccepted(t) == t # <<>>

\* line 97: `if text:` after the layout-aware reader
LayoutAccepted(t) == t # <<>>

\* line 103: `if HAS_PDF2IMG and HAS_TESS`
OcrAvailable == HAS_PDF2IMG /\ HAS_TESS

\* line 106: the images OCR'd before image_to_string first raises (all, if none does)
OcrRuns(images) ==
  LET bad == {j \in 1..Len(images) : images[j].exc}
  IN IF bad = {} THEN Len(images)
     ELSE CHOOSE j \in bad : \A m \in bad : j <= m

OcrRaises(o) == o.exc \/ \E j \in 1..Len(o.images) : o.images[j].exc

OcrTextFirstPage(images) == IF images = <<>> THEN <<>> ELSE Strip(images[1].s)

\* lines 106-107: "\n".join(texts).strip()
OcrText(images) ==
  Strip(Join(<<"\n">>, [j \in 1..Len(images) |-> images[j].s]))

FallbackNone == None

\* line 114: return ""
FallbackText == <<>>

\* lines 145-151: the uploader and the dispatch on the file name
IsPdf(name) == name = "spec.pdf"

Upload ==
  /\ pc = "upload"
  /\ \E file \in Files \cup {NoFile} :
       IF file = NoFile
       THEN /\ notes' = Append(notes, "info: upload a spec")
            /\ pc' = "stopped"
            /\ f' = f
       ELSE /\ f' = file
            /\ pc' = IF IsPdf(file.name) THEN "read_pdf" ELSE "read_docx"
            /\ notes' = notes
  /\ UNCHANGED <<flagVars, pdfVars, text, raised, viewVars, chunkVars>>

\* lines 73-86: file.read(), then the layer-text reader
PypdfStage ==
  /\ pc = "read_pdf"
  /\ data' = f.content
  /\ f' = [f EXCEPT !.content = NoData]
  /\ stages' = Append(stages, "pypdf")
  /\ IF HAS_PYPDF
     THEN /\ calls' = Append(calls, "pypdf")
          /\ IF f.content.exc
             THEN /\ notes' = Append(notes, "warning: pypdf failed")
                  /\ stage1' = "raised"
                  /\ pc' = "plumber"
                  /\ ret' = ret
             ELSE LET t == PdfText(f.content.items)
                  IN IF LayerAccepted(t)
                     THEN /\ ret' = t /\ stage1' = "text" /\ pc' = "ret"
                          /\ notes' = notes
                     ELSE /\ ret' = ret /\ stage1' = "blank" /\ pc' = "plumber"
                          /\ notes' = notes
     ELSE /\ stage1' = "unavailable"
          /\ pc' = "plumber"
          /\ UNCHANGED <<calls, notes, ret>>
  /\ UNCHANGED <<flagVars, stage2, ocr, text, raised, viewVars, chunkVars>>

\* lines 88-100: the layout-aware reader
PlumberStage ==
  /\ pc = "plumber"
  /\ stages' = Append(stages, "plumber")
  /\ IF HAS_PLUMBER
     THEN \E o \in PdfOutcomes :
            /\ calls' = Append(calls, "plumber")
            /\ IF o.exc
               THEN /\ notes' = Append(notes, "warning: pdfplumber failed")
                    /\ stage2' = "raised"
                    /\ pc' = "ocr"
                    /\ ret' = ret
               ELSE LET t == PdfText(o.items)
                    IN IF LayoutAccepted(t)
                       THEN /\ ret' = t /\ stage2' = "text" /\ pc' = "ret"
                            /\ notes' = notes
                       ELSE /\ ret' = ret /\ stage2' = "blank" /\ pc' = "ocr"
                            /\ notes' = notes
     ELSE /\ stage2' = "unavailable"
          /\ pc' = "ocr"
          /\ UNCHANGED <<calls, notes, ret>>
  /\ UNCHANGED <<flagVars, f, data, stage1, ocr, text, raised, viewVars, chunkVars>>

\* lines 102-114: rasterise and OCR, or give up
OcrStage ==
  /\ pc = "ocr"
  /\ stages' = Append(stages, "ocr")
  /\ IF OcrAvailable
     THEN \E o \in OcrOutcomes :
            /\ ocr' = o
            /\ calls' = calls \o <<"pdf2image">> \o
                        [j \in 1..(IF o.exc THEN 0 ELSE OcrRuns(o.images)) |-> "tess"]
            /\ IF OcrRaises(o)
               THEN /\ notes' = Append(notes, "warning: OCR failed")
                    /\ ret' = FallbackText
               ELSE /\ ret' = OcrText(o.images)
                    /\ notes' = notes
     ELSE /\ notes' = Append(notes, "info: OCR not available")
          /\ ret' = FallbackText
          /\ UNCHANGED <<ocr, calls>>
  /\ pc' = "ret"
  /\ UNCHANGED <<flagVars, f, data, stage1, stage2, text, raised, viewVars, chunkVars>>

\* ----------------------------------------------------------- read_docx
\* lines 116-121
ReadDocx ==
  /\ pc = "read_docx"
  /\ IF ~HAS_DOXC
     THEN /\ notes' = Append(notes, "warning: python-docx not available")
          /\ ret' = <<>>
          /\ pc' = "ret"
          /\ UNCHANGED <<f, data, calls, raised>>
     ELSE /\ data' = f.content
          /\ f' = [f EXCEPT !.content = NoData]
          /\ calls' = Append(calls, "docx")
          /\ IF f.content.exc
             THEN /\ raised' = TRUE
                  /\ pc' = "crashed"
                  /\ ret' = ret
             ELSE /\ ret' = Join(<<"\n">>, f.content.items)
                  /\ pc' = "ret"
                  /\ raised' = raised
          /\ notes' = notes
  /\ UNCHANGED <<flagVars, stage1, stage2, ocr, stages, text, viewVars, chunkVars>>

\* ---------------------------------------------------------- chunk_text
StrideSkipsOne(n, ov) == n - ov + 1

\* line 126: i += size - overlap
Stride(n, ov) == n - ov

BreakOnNegative(j) == j < 0

\* line 127: if i<=0: break
BreakNow(j) == j <= 0

\* lines 125-127: the loop test and one pass of the loop body
ChunkIter(st, n, ov) ==
  IF st.i < Len(st.toks)
  THEN LET w == Join(<<" ">>, PySlice(st.toks, st.i, st.i + n))
           ni == st.i + Stride(n, ov)
       IN [toks |-> st.toks, out |-> Append(st.out, w), i |-> ni, done |-> BreakNow(ni)]
  ELSE [st EXCEPT !.done = TRUE]

RECURSIVE ChunkRun(_, _, _)
ChunkRun(st, n, ov) == IF st.done THEN st ELSE ChunkRun(ChunkIter(st, n, ov), n, ov)

\* lines 123-128
ChunkText(t, n, ov) ==
  ChunkRun([toks |-> Split(t), out |-> <<>>, i |-> 0, done |-> FALSE], n, ov).out

\* ------------------------------------------------------------------ ask
\* line 132
NoKeyMsg == <<"[No API key]", " ", "Add OPENAI_API_KEY in Settings.">>

\* line 141: f"[OpenAI error] {e}"
ErrMsg(e) == <<"[OpenAI error]", " ">> \o e

AskUnguarded(ok, cl, r) ==
  IF cl # "obj" THEN [result |-> ErrMsg(<<"n">>), called |-> FALSE]
  ELSE [result |-> IF r.kind = "ok" /\ r.content # None THEN Strip(r.content)
                   ELSE ErrMsg(<<"e">>),
        called |-> TRUE]

\* lines 130-141: the returned string, and whether the remote call was made
Ask(ok, cl, r) ==
  IF ~ok THEN [result |-> NoKeyMsg, called |-> FALSE]
  ELSE IF cl # "obj"
       THEN [result |-> ErrMsg(<<"n">>), called |-> FALSE]
  ELSE CASE r.kind = "exc" -> [result |-> ErrMsg(r.content), called |-> TRUE]
         [] r.kind = "no_choices" -> [result |-> ErrMsg(<<"i">>), called |-> TRUE]
         [] r.kind = "ok" /\ r.content = None ->
              [result |-> ErrMsg(<<"t">>), called |-> TRUE]
         [] OTHER -> [result |-> Strip(r.content), called |-> TRUE]

\* ------------------------------------------------------------ main flow
GateEmptyNoStrip(t) == t = <<>>

\* line 153: `if not text.strip()`
GateEmpty(t) == Strip(t) = <<>>

\* lines 151-157: bind the extractor's result, leave its frame, gate on it
Gate ==
  /\ pc = "ret"
  /\ text' = ret
  /\ data' = NoData /\ stage1' = "pending" /\ stage2' = "pending" /\ ocr' = NoOcr
  /\ ret' = <<>> /\ stages' = <<>> /\ calls' = <<>>
  /\ IF GateEmpty(ret)
     THEN /\ notes' = Append(notes, "error: couldn't extract text")
          /\ pc' = "stopped"
     ELSE /\ notes' = notes
          /\ pc' = "summary"
  /\ UNCHANGED <<flagVars, f, raised, viewVars, chunkVars>>

\* lines 159-162: the AI Summary tab chunks the text
Summary ==
  /\ pc = "summary"
  /\ chunks' = ChunkText(text, DefaultSize, DefaultOverlap)
  /\ chunkCalls' = chunkCalls + 1
  /\ outs' = <<>>
  /\ k' = 0
  /\ pc' = "summary_loop"
  /\ UNCHANGED <<flagVars, f, pdfVars, text, notes, raised, lastAsk, remote, askCalls,
                 remoteCalls, hits, df, chunkVars>>

\* lines 163-169: one pass of `for i, ch in enumerate(chunks[:5])`
SummaryAsk ==
  /\ pc = "summary_loop"
  /\ k < Len(PySlice(chunks, 0, SummaryChunks))
  /\ \E r \in RemoteOutcomes :
       LET a == Ask(OPENAI_OK, client, r)
       IN /\ outs' = Append(outs, a.result)
          /\ lastAsk' = a.result
          /\ remote' = IF a.called THEN r ELSE NoRemote
          /\ askCalls' = askCalls + 1
          /\ remoteCalls' = remoteCalls + (IF a.called THEN 1 ELSE 0)
  /\ k' = k + 1
  /\ UNCHANGED <<flagVars, pc, f, pdfVars, text, notes, raised, chunks, chunkCalls,
                 hits, df, chunkVars>>

\* line 170: the loop is over, the joined summaries are written
SummaryWrite ==
  /\ pc = "summary_loop"
  /\ k >= Len(PySlice(chunks, 0, SummaryChunks))
  /\ notes' = Append(notes, "summary")
  /\ pc' = "flags"
  /\ UNCHANGED <<flagVars, f, pdfVars, text, raised, viewVars, chunkVars>>

ContextWidth == 60

\* line 185: .replace("\n", " ")
NoNewlines(s) == [j \in 1..Len(s) |-> IF s[j] = "\n" THEN " " ELSE s[j]]

\* lines 180-186: the hits of one term, scanning from `start`
RECURSIVE TermHits(_, _, _)
TermHits(t, term, start) ==
  LET t0 == Lower(term)
      idx == Find(Lower(t), t0, start)
  IN IF idx < 0 THEN <<>>
     ELSE LET s == Max(0, idx - ContextWidth)
              e == Min(Len(t), idx + Len(t0) + ContextWidth)
          IN <<[term |-> term, context |-> NoNewlines(PySlice(t, s, e))]>> \o
             TermHits(t, term, idx + Len(t0))

\* lines 172-188: the Compliance Flags tab, for the terms the user typed
ComplianceFlags ==
  /\ pc = "flags"
  /\ \E terms \in SeqsUpTo(Terms, 1) :
       hits' = IF terms = <<>> THEN <<>> ELSE TermHits(text, terms[1], 0)
  /\ pc' = "submittal"
  /\ UNCHANGED <<flagVars, f, pdfVars, text, notes, raised, chunks, k, outs, lastAsk,
                 remote, askCalls, remoteCalls, chunkCalls, df, chunkVars>>

\* line 200: json.loads(out) succeeds on a JSON document only
JsonLoads(s) == IF s = <<"[", "]">> THEN [parsed |-> TRUE, rows |-> 0]
                ELSE [parsed |-> FALSE, rows |-> 0]

\* lines 190-208: the Submittal Log tab
SubmittalLog ==
  /\ pc = "submittal"
  /\ \E r \in RemoteOutcomes :
       LET a == Ask(OPENAI_OK, client, r)
       IN /\ lastAsk' = a.result
          /\ remote' = IF a.called THEN r ELSE NoRemote
          /\ askCalls' = askCalls + 1
          /\ remoteCalls' = remoteCalls + (IF a.called THEN 1 ELSE 0)
          /\ df' = JsonLoads(a.result)
  /\ pc' = "bid"
  /\ UNCHANGED <<flagVars, f, pdfVars, text, notes, raised, chunks, k, outs,
                 chunkCalls, hits, chunkVars>>

\* lines 210-218: the Bid Assistant tab
BidAssistant ==
  /\ pc = "bid"
  /\ \E r \in RemoteOutcomes :
       LET a == Ask(OPENAI_OK, client, r)
       IN /\ lastAsk' = a.result
          /\ remote' = IF a.called THEN r ELSE NoRemote
          /\ askCalls' = askCalls + 1
          /\ remoteCalls' = remoteCalls + (IF a.called THEN 1 ELSE 0)
  /\ pc' = "done"
  /\ UNCHANGED <<flagVars, f, pdfVars, text, notes, raised, chunks, k, outs,
                 chunkCalls, hits, df, chunkVars>>

Next ==
  \/ Upload
  \/ PypdfStage
  \/ PlumberStage
  \/ OcrStage
  \/ ReadDocx
  \/ Gate
  \/ Summary
  \/ SummaryAsk
  \/ SummaryWrite
  \/ ComplianceFlags
  \/ SubmittalLog
  \/ BidAssistant

Spec == Init /\ [][Next]_vars

\* ------------------------------------- chunk_text on its own, step by step
ChunkChars == {"a", "b", " "}

ExampleText == <<"a", " ", "b", " ", "c", " ", "d", " ", "e">>

ChunkTexts == SeqsUpTo(ChunkChars, MaxTextLen) \cup {ExampleText}

ChunkArgs == -1..MaxSize

InitChunk ==
  /\ HAS_PYPDF = FALSE /\ HAS_DOXC = FALSE /\ HAS_PLUMBER = FALSE
  /\ HAS_PDF2IMG = FALSE /\ HAS_TESS = FALSE
  /\ setup = "no_key" /\ OPENAI_OK = FALSE /\ client = "unbound"
  /\ MainIdle
  /\ cpc = "start"
  /\ ctext \in ChunkTexts
  /\ size \in ChunkArgs
  /\ overlap \in ChunkArgs
  /\ toks = <<>> /\ out = <<>> /\ i = 0

\* line 124: toks = text.split(); out=[]; i=0
ChunkStart ==
  /\ cpc = "start"
  /\ toks' = Split(ctext)
  /\ out' = <<>>
  /\ i' = 0
  /\ cpc' = "loop"
  /\ UNCHANGED <<flagVars, pc, f, pdfVars, text, notes, raised, viewVars, ctext, size, overlap>>

\* lines 125-127: the loop test and one pass; a run of the loop appends at most
\* one window per character of the text, and the guard caps the list there
ChunkLoop ==
  /\ cpc = "loop"
  /\ Len(out) <= Len(ctext)
  /\ LET st == ChunkIter([toks |-> toks, out |-> out, i |-> i, done |-> FALSE],
                         size, overlap)
     IN /\ out' = st.out
        /\ i' = st.i
        /\ cpc' = IF st.done THEN "done" ELSE "loop"
  /\ UNCHANGED <<flagVars, pc, f, pdfVars, text, notes, raised, viewVars, ctext, size,
                 overlap, toks>>

NextChunk == ChunkStart \/ ChunkLoop

SpecChunk == InitChunk /\ [][NextChunk]_vars /\ WF_vars(NextChunk)

\* ================================================================ claims
Chars == {"a", "A", "b", "c", "d", "e", " ", "\n", "[", "]"}

IsStr(s) == \A j \in 1..Len(s) : s[j] \in Chars

\* read_pdf has returned and its frame is still in view
PdfReturned == pc = "ret" /\ IsPdf(f.name)

\* the uploaded PDF has a non-empty embedded text layer
HasTextLayer == PdfReturned /\ ~data.exc /\ PdfText(data.items) # <<>>

LaterBackends == {"plumber", "pdf2image", "tess"}

NoLaterBackend == \A j \in 1..Len(calls) : calls[j] \notin LaterBackends

\* C1 as stated: for every PDF with a non-empty text layer read_pdf returns that
\* text (pages joined with newlines, stripped) and invokes neither the
\* layout-aware reader nor the rasterizer nor the OCR engine.
C1_TextLayerAlwaysWins ==
  HasTextLayer => ret = PdfText(data.items) /\ NoLaterBackend

\* C1 amended: the same, when the layer-text reader is available (HAS_PYPDF),
\* whatever the availability of the later backends.
C1_TextLayerWinsWhenAvailable ==
  HasTextLayer /\ HAS_PYPDF =>
    ret = PdfText(data.items) /\ calls = <<"pypdf">>

C1_Witness ==
  /\ HasTextLayer /\ HAS_PYPDF /\ HAS_PLUMBER /\ OcrAvailable
  /\ Len(data.items) = 2
  /\ ret = <<"a", "\n", "a">>
  /\ calls = <<"pypdf">>

Stage1Failed == stage1 \in {"unavailable", "raised", "blank"}
Stage2Failed == stage2 \in {"unavailable", "raised", "blank"}

IsPrefix(s, t) == Len(s) <= Len(t) /\ SubSeq(t, 1, Len(s)) = s

CallRank(c) ==
  CASE c = "pypdf" -> 1 [] c = "plumber" -> 2 [] c = "pdf2image" -> 3 [] c = "tess" -> 4
    [] OTHER -> 0

\* backends are invoked in fallback order, each reader and the rasterizer at most once
CallsInOrder ==
  \A a, b \in 1..Len(calls) :
    a < b => \/ CallRank(calls[a]) < CallRank(calls[b])
             \/ (calls[a] = "tess" /\ calls[b] = "tess")

\* C2: when the layer-text stage fails read_pdf goes on to the layout-aware
\* stage; when that fails too and rasterizer and OCR engine are both available,
\* the result is the OCR output (page texts joined with newlines, stripped),
\* empty or not; the stages run in the order layer-text, layout-aware, OCR,
\* each at most once.
C2_FallsThroughToOcr ==
  PdfReturned =>
    /\ IsPrefix(stages, <<"pypdf", "plumber", "ocr">>)
    /\ CallsInOrder
    /\ (Stage1Failed => Len(stages) >= 2 /\ stages[2] = "plumber")
    /\ (Stage1Failed /\ Stage2Failed /\ OcrAvailable /\ ~OcrRaises(ocr) =>
          /\ stages = <<"pypdf", "plumber", "ocr">>
          /\ ret = Strip(Join(<<"\n">>, [j \in 1..Len(ocr.images) |-> ocr.images[j].s])))

C2_Witness ==
  /\ PdfReturned /\ stage1 = "blank" /\ stage2 = "raised" /\ OcrAvailable
  /\ ~OcrRaises(ocr) /\ Len(ocr.images) = 2
  /\ ret = <<>>
  /\ calls = <<"pypdf", "plumber", "pdf2image", "tess", "tess">>

\* C3: for every combination of flags and stage outcomes read_pdf returns a
\* string and raises nothing; when the first two stages fail and the rasterizer
\* or the OCR engine is missing, or the OCR stage raises, the result is "".
C3_PdfNeverRaises ==
  /\ (IsPdf(f.name) => ~raised /\ pc # "crashed")
  /\ (PdfReturned =>
        /\ ret # None /\ IsStr(ret)
        /\ (Stage1Failed /\ Stage2Failed /\ (~OcrAvailable \/ OcrRaises(ocr)) => ret = <<>>))

C3_Witness ==
  /\ PdfReturned /\ stage1 = "raised" /\ stage2 = "raised"
  /\ OcrAvailable /\ OcrRaises(ocr) /\ ~ocr.exc
  /\ ret = <<>> /\ ~raised

IsDocx == f.name = "spec.docx"

\* C4: read_docx returns "" when the DOCX reader is missing or raises, and no
\* exception reaches the caller; otherwise it returns the paragraphs joined by
\* newlines in order.
C4_DocxNeverRaises ==
  IsDocx =>
    /\ ~raised /\ pc # "crashed"
    /\ (pc = "ret" /\ ~HAS_DOXC => ret = <<>>)
    /\ (pc = "ret" /\ HAS_DOXC => ret = Join(<<"\n">>, data.items))

\* C5: chunk_text("a b c d e", size=3, overlap=1) is exactly ["a b c", "c d e"].
C5_ExampleTwoWindows ==
  cpc = "done" /\ ctext = ExampleText /\ size = 3 /\ overlap = 1 =>
    out = << <<"a", " ", "b", " ", "c">>, <<"c", " ", "d", " ", "e">> >>

LastN(w, n) == SubSeq(w, Len(w) - n + 1, Len(w))

\* C6: for size > overlap >= 0, the last `overlap` tokens of every window are the
\* first `overlap` tokens of the next one.
C6_ConsecutiveShareOverlap ==
  cpc = "done" /\ size > overlap /\ overlap >= 0 =>
    \A j \in 1..(Len(out) - 1) :
      LET a == Split(out[j])
          b == Split(out[j + 1])
      IN /\ Len(a) >= overlap /\ Len(b) >= overlap
         /\ LastN(a, overlap) = SubSeq(b, 1, overlap)

RECURSIVE Concat(_)
Concat(list) == IF list = <<>> THEN <<>> ELSE Head(list) \o Concat(Tail(list))

DropLeading(w, n) == SubSeq(w, n + 1, Len(w))

\* C7: for size > overlap >= 0 every window is non-empty, window j is the slice
\* of the token sequence that starts (j-1)*(size-overlap) tokens in and has at
\* most `size` tokens, and the first window followed by every later window
\* without its leading `overlap` tokens is the whole token sequence; a text
\* without tokens gives no windows.
C7_WindowsCoverTokens ==
  cpc = "done" /\ size > overlap /\ overlap >= 0 =>
    LET T == Split(ctext)
    IN /\ (T = <<>> => out = <<>>)
       /\ \A j \in 1..Len(out) :
            LET s == (j - 1) * (size - overlap)
            IN /\ out[j] # <<>> /\ Split(out[j]) # <<>>
               /\ s < Len(T)
               /\ Split(out[j]) = SubSeq(T, s + 1, Min(s + size, Len(T)))
       /\ Concat([j \in 1..Len(out) |->
                    IF j = 1 THEN Split(out[j])
                    ELSE DropLeading(Split(out[j]), overlap)]) = T

C7_Witness ==
  /\ cpc = "done" /\ size > overlap /\ overlap >= 1
  /\ Len(out) >= 3
  /\ Len(Split(out[Len(out)])) < size
  /\ Split(ctext) = <<<<"a">>, <<"b">>, <<"a">>>>

ViewPcs == {"summary", "summary_loop", "flags", "submittal", "bid", "done"}

\* C8: when the extractor returns an empty or whitespace-only string the run
\* stops with the error message, and chunk_text and ask are never called on it.
C8_GateStopsEmptyText ==
  /\ (pc \in ViewPcs \/ chunkCalls > 0 \/ askCalls > 0 => Strip(text) # <<>>)
  /\ (pc = "stopped" /\ f.name # "" =>
        /\ Strip(text) = <<>>
        /\ notes # <<>> /\ notes[Len(notes)] = "error: couldn't extract text"
        /\ chunkCalls = 0 /\ askCalls = 0)

C8_Witness ==
  /\ pc = "stopped" /\ IsDocx /\ HAS_DOXC
  /\ text # <<>> /\ Strip(text) = <<>>
  /\ chunkCalls = 0 /\ askCalls = 0

BeginsWith(s, tag) == Len(s) >= 1 /\ s[1] = tag

RemoteFailed == remote.kind \in {"exc", "no_choices"} \/ (remote.kind = "ok" /\ remote.content = None)

\* C9: ask returns a string in every setup state and for every remote outcome;
\* with no service configured it begins with "[No API key]" and no remote call is
\* made; when the call fails it begins with "[OpenAI error]".
C9_AskNeverRaises ==
  askCalls > 0 =>
    /\ ~raised /\ lastAsk # None
    /\ \A j \in 2..Len(lastAsk) : lastAsk[j] \in Chars \cup {"Add OPENAI_API_KEY in Settings.", "i", "t", "n"}
    /\ (setup # "constructed" => BeginsWith(lastAsk, "[No API key]") /\ remoteCalls = 0
                                 /\ remote = NoRemote)
    /\ (setup = "constructed" => remoteCalls = askCalls)
    /\ (setup = "constructed" /\ RemoteFailed => BeginsWith(lastAsk, "[OpenAI error]"))
    /\ (setup = "constructed" /\ ~RemoteFailed => lastAsk = Strip(remote.content))

C9_Witness ==
  /\ pc = "done" /\ setup = "ctor_failed" /\ askCalls = 3 /\ remoteCalls = 0
  /\ BeginsWith(lastAsk, "[No API key]")

\* C10: chunk_text terminates for every text, size and overlap; with a
\* non-positive stride and at least one token it ends with exactly one window.
C10_ChunkTerminates ==
  <>(cpc = "done" /\ (size <= overlap /\ Split(ctext) # <<>> => Len(out) = 1))

C10_Witness ==
  /\ cpc = "done" /\ size < overlap /\ Len(toks) >= 2 /\ Len(out) = 1

====
